---------------------------- MODULE Spec2Model ----------------------------
(***************************************************************************)
(* Model of the 48 IX mailing-list worker (the second script held in       *)
(* src/src/invite-request.js, lines 100-773): the request handler          *)
(* handleRequest, the MailJet resolver and mutator functions it awaits,    *)
(* the fetch wrapper Client and the Slack notifier, run against a model of *)
(* the remote MailJet account (contacts, list recipients, templates).      *)
(*                                                                         *)
(* JavaScript strings are sequences of character codes, so that the        *)
(* template literals, encodeURIComponent and btoa are computed as the      *)
(* code computes them.  The JavaScript value undefined is the one-element  *)
(* sequence <<-1>>, which is no string.                                    *)
(***************************************************************************)
EXTENDS Integers, Sequences, FiniteSets, TLC

(***************************************************************************)
(* JavaScript values and string primitives                                 *)
(***************************************************************************)

\* The value undefined (a destructured key that is absent, a let without value).
Undefined == <<-1>>

\* String(x) as a template literal `${x}` computes it: undefined prints "undefined".
Str(x) ==
  IF x = Undefined THEN <<117, 110, 100, 101, 102, 105, 110, 101, 100>> ELSE x

\* Concatenation of a sequence of strings (the pieces of a template literal).
RECURSIVE Cat(_)
Cat(parts) ==
  IF parts = <<>> THEN <<>> ELSE Head(parts) \o Cat(Tail(parts))

\* The UTF-8 bytes of code point c (below the surrogate range).
Utf8(c) ==
  IF c < 128 THEN <<c>>
  ELSE IF c < 2048 THEN <<192 + (c \div 64), 128 + (c % 64)>>
  ELSE <<224 + (c \div 4096), 128 + ((c \div 64) % 64), 128 + (c % 64)>>

\* An upper-case hexadecimal digit.
HexDigit(n) == IF n < 10 THEN 48 + n ELSE 55 + n

\* %XX for one byte.
PctByte(b) == <<37, HexDigit(b \div 16), HexDigit(b % 16)>>

\* The characters encodeURIComponent leaves alone: A-Z a-z 0-9 - _ . ! ~ * ' ( )
UriUnreserved(c) ==
  \/ c \in 65..90
  \/ c \in 97..122
  \/ c \in 48..57
  \/ c \in {45, 95, 46, 33, 126, 42, 39, 40, 41}

RECURSIVE PctBytes(_)
PctBytes(bytes) ==
  IF bytes = <<>> THEN <<>> ELSE PctByte(Head(bytes)) \o PctBytes(Tail(bytes))

\* encodeURIComponent(s)
RECURSIVE encodeURIComponent(_)
encodeURIComponent(s) ==
  IF s = <<>> THEN <<>>
  ELSE (IF UriUnreserved(Head(s)) THEN <<Head(s)>> ELSE PctBytes(Utf8(Head(s))))
       \o encodeURIComponent(Tail(s))

\* The base64 alphabet: A-Z a-z 0-9 + /
B64Char(i) ==
  IF i < 26 THEN 65 + i
  ELSE IF i < 52 THEN 97 + (i - 26)
  ELSE IF i < 62 THEN 48 + (i - 52)
  ELSE IF i = 62 THEN 43 ELSE 47

\* btoa(s) for a string of characters below 256: three bytes to four characters,
\* the last group padded with '='.
RECURSIVE btoa(_)
btoa(s) ==
  IF s = <<>> THEN <<>>
  ELSE IF Len(s) = 1 THEN
    <<B64Char(s[1] \div 4), B64Char((s[1] % 4) * 16), 61, 61>>
  ELSE IF Len(s) = 2 THEN
    <<B64Char(s[1] \div 4), B64Char((s[1] % 4) * 16 + (s[2] \div 16)),
      B64Char((s[2] % 16) * 4), 61>>
  ELSE
    <<B64Char(s[1] \div 4), B64Char((s[1] % 4) * 16 + (s[2] \div 16)),
      B64Char((s[2] % 16) * 4 + (s[3] \div 64)), B64Char(s[3] % 64)>>
    \o btoa(SubSeq(s, 4, Len(s)))


(***************************************************************************)
(* String constants of the source                                          *)
(***************************************************************************)

\* 'add' (line 692)
ADD == <<97, 100, 100>>
\* 'subscribe' (line 699)
SUBSCRIBE == <<115, 117, 98, 115, 99, 114, 105, 98, 101>>
\* 'https://48ix.net/subscribe?' (lines 709, 749)
SUCCESS_URL ==
  <<104, 116, 116, 112, 115, 58, 47, 47, 52, 56, 105, 120, 46, 110, 101, 116,
    47, 115, 117, 98, 115, 99, 114, 105, 98, 101, 63>>
\* 'https://48ix.net/subscribe/failure?' (line 764)
FAILURE_URL ==
  <<104, 116, 116, 112, 115, 58, 47, 47, 52, 56, 105, 120, 46, 110, 101, 116,
    47, 115, 117, 98, 115, 99, 114, 105, 98, 101, 47, 102, 97, 105, 108, 117,
    114, 101, 63>>
\* 'emailAddr=' and '&listName=' and '&error=' (lines 708, 742, 757)
EMAIL_KEY == <<101, 109, 97, 105, 108, 65, 100, 100, 114, 61>>
LIST_KEY == <<38, 108, 105, 115, 116, 78, 97, 109, 101, 61>>
ERROR_KEY == <<38, 101, 114, 114, 111, 114, 61>>
\* '-confirmation' (line 625)
CONFIRMATION_SUFFIX == <<45, 99, 111, 110, 102, 105, 114, 109, 97, 116, 105, 111, 110>>
\* 'Unable to parse request.' (line 607)
UNABLE_TO_PARSE ==
  <<85, 110, 97, 98, 108, 101, 32, 116, 111, 32, 112, 97, 114, 115, 101, 32,
    114, 101, 113, 117, 101, 115, 116, 46>>
\* 'General Error' (line 235)
GENERAL_ERROR == <<71, 101, 110, 101, 114, 97, 108, 32, 69, 114, 114, 111, 114>>

\* `An error occurred while attempting to add '${emailAddr}' to list '${listName}'` (line 599)
DefaultMessage(emailAddr, listName) ==
  Cat(<< <<65, 110, 32, 101, 114, 114, 111, 114, 32, 111, 99, 99, 117, 114, 114,
           101, 100, 32, 119, 104, 105, 108, 101, 32, 97, 116, 116, 101, 109, 112,
           116, 105, 110, 103, 32, 116, 111, 32, 97, 100, 100, 32, 39>>,
         Str(emailAddr),
         <<39, 32, 116, 111, 32, 108, 105, 115, 116, 32, 39>>,
         Str(listName),
         <<39>> >>)

\* `Error sending confirmation email to '${emailAddr}' for list '${listName}'` (line 630)
TemplateMessage(emailAddr, listName) ==
  Cat(<< <<69, 114, 114, 111, 114, 32, 115, 101, 110, 100, 105, 110, 103, 32, 99,
           111, 110, 102, 105, 114, 109, 97, 116, 105, 111, 110, 32, 101, 109, 97,
           105, 108, 32, 116, 111, 32, 39>>,
         Str(emailAddr),
         <<39, 32, 102, 111, 114, 32, 108, 105, 115, 116, 32, 39>>,
         Str(listName),
         <<39>> >>)

\* `An error occurred while adding ${emailAddr} to list ${listName}: ${error.message}` (line 676)
AttachMessage(emailAddr, listName, message) ==
  Cat(<< <<65, 110, 32, 101, 114, 114, 111, 114, 32, 111, 99, 99, 117, 114, 114,
           101, 100, 32, 119, 104, 105, 108, 101, 32, 97, 100, 100, 105, 110, 103, 32>>,
         Str(emailAddr),
         <<32, 116, 111, 32, 108, 105, 115, 116, 32>>,
         Str(listName),
         <<58, 32>>,
         Str(message) >>)

\* `${emailAddr} is already subscribed to contact list '${listName}'` (line 695)
ConflictMessage(emailAddr, listName) ==
  Cat(<< Str(emailAddr),
         <<32, 105, 115, 32, 97, 108, 114, 101, 97, 100, 121, 32, 115, 117, 98, 115,
           99, 114, 105, 98, 101, 100, 32, 116, 111, 32, 99, 111, 110, 116, 97, 99,
           116, 32, 108, 105, 115, 116, 32, 39>>,
         Str(listName),
         <<39>> >>)

\* `A confirmation email has been sent to '${emailAddr}'` (line 731)
SentMessage(emailAddr) ==
  Cat(<< <<65, 32, 99, 111, 110, 102, 105, 114, 109, 97, 116, 105, 111, 110, 32, 101,
           109, 97, 105, 108, 32, 104, 97, 115, 32, 98, 101, 101, 110, 32, 115, 101,
           110, 116, 32, 116, 111, 32, 39>>,
         Str(emailAddr),
         <<39>> >>)

\* Mutant of EncodedInfo: the payload handed to btoa without encodeURIComponent.
EncodedInfo_NoEscape(emailAddr, listName) ==
  btoa(Cat(<<EMAIL_KEY, Str(emailAddr), LIST_KEY, Str(listName)>>))

\* btoa(encodeURIComponent(`emailAddr=${emailAddr}&listName=${listName}`)) (lines 708, 742)
EncodedInfo(emailAddr, listName) ==
  btoa(encodeURIComponent(Cat(<<EMAIL_KEY, Str(emailAddr), LIST_KEY, Str(listName)>>)))

\* Mutant of EncodedError: the error message is left out of the payload.
EncodedError_NoMessage(emailAddr, listName, message) ==
  btoa(encodeURIComponent(Cat(<<EMAIL_KEY, Str(emailAddr), LIST_KEY, Str(listName)>>)))


\* The same with `&error=${error.message}` appended (lines 755-759)
EncodedError(emailAddr, listName, message) ==
  btoa(encodeURIComponent(
    Cat(<<EMAIL_KEY, Str(emailAddr), LIST_KEY, Str(listName), ERROR_KEY, Str(message)>>)))

(***************************************************************************)
(* The remote MailJet account and the remote's responses                   *)
(***************************************************************************)

\* The email addresses requests are made for: 'a@b' and 'é%2B' (a non-ASCII
\* character and a literal percent sign, which encodeURIComponent must escape).
Emails == {<<97, 64, 98>>, <<233, 37, 50, 66>>}

\* The order in which the remote lists contacts.
EmailOrder == << <<97, 64, 98>>, <<233, 37, 50, 66>> >>

\* Contact list names: 'news' and 'ops'.
NEWS == <<110, 101, 119, 115>>
OPS == <<111, 112, 115>>

\* Data of GET /contactslist, cleaned as getAllContactLists cleans it.
RemoteContactLists == << [id |-> 12, name |-> OPS], [id |-> 11, name |-> NEWS] >>

ListIds == {RemoteContactLists[i].id : i \in DOMAIN RemoteContactLists}

\* Data of GET /template, cleaned as getTemplates cleans it: list 'ops' has a
\* template that is not its confirmation template, list 'news' has one.
RemoteTemplates ==
  << [id |-> 21, name |-> OPS],
     [id |-> 22, name |-> NEWS \o CONFIRMATION_SUFFIX] >>

\* The remote's ID of the contact with an email address.
ContactIdOf(e) == CHOOSE i \in DOMAIN EmailOrder : EmailOrder[i] = e

\* The remote's ID of the list recipient that links a contact to a list.
RecipientIdOf(e, listId) == 100 * ContactIdOf(e) + listId

\* Non-success responses of the remote, and a fetch that rejects.  A response
\* has a status line and a body that parses as JSON, reads as text, or neither:
\* 400 'Bad Request' with a JSON error, 500 with the text 'oops' and no status
\* text, 503 'Service Unavailable' with the text 'down', 502 with a body that
\* cannot be read, and 'Network connection lost.'.
ErrorResponses ==
  { [kind |-> "http", status |-> 400,
     statusText |-> <<66, 97, 100, 32, 82, 101, 113, 117, 101, 115, 116>>,
     json |-> TRUE, ErrorCode |-> <<77, 74, 49, 56>>, ErrorMessage |-> <<100, 117, 112>>,
     textOk |-> TRUE, text |-> <<123, 125>>],
    [kind |-> "http", status |-> 500, statusText |-> <<>>,
     json |-> FALSE, ErrorCode |-> Undefined, ErrorMessage |-> Undefined,
     textOk |-> TRUE, text |-> <<111, 111, 112, 115>>],
    [kind |-> "http", status |-> 503,
     statusText |-> <<83, 101, 114, 118, 105, 99, 101, 32, 85, 110, 97, 118, 97, 105,
                      108, 97, 98, 108, 101>>,
     json |-> FALSE, ErrorCode |-> Undefined, ErrorMessage |-> Undefined,
     textOk |-> TRUE, text |-> <<100, 111, 119, 110>>],
    [kind |-> "http", status |-> 502, statusText |-> <<>>,
     json |-> FALSE, ErrorCode |-> Undefined, ErrorMessage |-> Undefined,
     textOk |-> FALSE, text |-> <<>>],
    [kind |-> "network", status |-> 0,
     statusText |-> <<78, 101, 116, 119, 111, 114, 107, 32, 99, 111, 110, 110, 101,
                      99, 116, 105, 111, 110, 32, 108, 111, 115, 116, 46>>,
     json |-> FALSE, ErrorCode |-> Undefined, ErrorMessage |-> Undefined,
     textOk |-> FALSE, text |-> <<>>] }

\* Client.clientError: the detail string of a non-success response.
clientError(response) ==
  LET detail0 == response.statusText
      detail1 == IF response.json
                 THEN Cat(<<Str(response.ErrorCode), <<58, 32>>, Str(response.ErrorMessage)>>)
                 ELSE detail0
      detail2 == IF detail1 = <<>> /\ response.textOk THEN response.text ELSE detail1
  IN  IF detail2 = <<>> THEN GENERAL_ERROR ELSE detail2

\* err.message of what Client.get/post/put throw: the MailingListError built from
\* clientError, or the error of a fetch that rejected.
ErrorMessageOf(response) ==
  IF response.kind = "network" THEN response.statusText ELSE clientError(response)

(***************************************************************************)
(* State                                                                   *)
(***************************************************************************)

\* The executions of handleRequest that may be in progress.
Slots == {"r1", "r2"}

VARIABLES
  contacts,   \* remote: the email addresses that have a contact
  member,     \* remote: <<email, listId>> -> "none", "unsub" or "sub" (the list recipient)
  rq,         \* per slot: the locals of one execution of handleRequest and its position
  overlap,    \* whether requests are served while another one awaits a remote call
  headers,    \* Fetch.headers: the number of 'Content-Type' values appended to it
  optIn,      \* history: <<email, listId>> of the 'add' requests answered 200
  fresh,      \* history: <<email, listId>> whose latest request was an 'add' that created the contact and was answered 200
  raced,      \* history: the mutators two executions had in flight at once for what the account did not hold yet
  requestUrl, \* request.url of a request whose parameters are being parsed
  params      \* what parseUrl returned for requestUrl, once it has

vars == <<contacts, member, rq, overlap, headers, optIn, fresh, raced, requestUrl, params>>

\* parseUrl has not been called.
NotParsed == [parsed |-> FALSE, map |-> <<>>]

\* No response yet.
NoResponse == [kind |-> "none", status |-> 0, text |-> <<>>]

\* The locals of handleRequest before a request arrives (lines 599-617, 437), with
\* the history of the request: the remote calls it issued (calls) and the remote
\* account as it was when the request arrived (pre).
IdleRequest ==
  [ pc |-> "idle",
    action |-> Undefined, emailAddr |-> Undefined, listName |-> Undefined,
    listDetails |-> <<>>, emailTemplate |-> <<>>,
    contactId |-> 0, exists |-> FALSE,
    contactExists |-> FALSE, onList |-> FALSE, alreadySubscribed |-> FALSE,
    recipientId |-> Undefined, subscribed |-> FALSE, error |-> Undefined,
    calls |-> <<>>, response |-> NoResponse,
    pre |-> [contacts |-> {}, member |-> <<>>] ]

\* One remote call in the history of a request: the function of the source that
\* issued it and whether the remote accepted it.  The functions that catch the
\* error and only log it return nothing of it.
Call(op, o) == [op |-> op, ok |-> o.kind = "ok", err |-> Undefined, arg |-> Undefined]

\* The same for the functions that return the error they caught (addContactToList,
\* subscribeContact) or its message (sendEmail): err is error.message, reply is
\* the kind and status of the response the error was made from.
CallWithError(op, o) ==
  [op |-> op, ok |-> o.kind = "ok",
   err |-> IF o.kind = "ok" THEN Undefined ELSE ErrorMessageOf(o.response),
   arg |-> Undefined,
   reply |-> IF o.kind = "ok" THEN Undefined ELSE <<o.response.kind, o.response.status>>]

\* new Response(JSON.stringify({message}), {status}) / Response.redirect(url, 301)
Respond(q, kind, status, text) ==
  [q EXCEPT !.pc = "done", !.response = [kind |-> kind, status |-> status, text |-> text]]

\* An exception that leaves handleRequest (a TypeError on listDetails.id).
Throw(q) == Respond(q, "exception", 0, <<>>)

\* The query parameters a request may carry; Undefined is a parameter that is absent.
Actions == {ADD, SUBSCRIBE, <<114, 101, 109, 111, 118, 101>>, Undefined}
EmailParams == Emails \cup {Undefined}
ListParams == {NEWS, OPS, Undefined}

\* The responses of the remote to a call: success only where the remote accepts
\* the call, any error response otherwise or as well.
Outcomes(accepted) ==
  (IF accepted THEN {[kind |-> "ok"]} ELSE {})
  \cup {[kind |-> "error", response |-> e] : e \in ErrorResponses}

\* Whether the list with an ID has its confirmation template.
HasConfirmation(listId) ==
  \E i \in DOMAIN RemoteContactLists, j \in DOMAIN RemoteTemplates :
    /\ RemoteContactLists[i].id = listId
    /\ RemoteTemplates[j].name = RemoteContactLists[i].name \o CONFIRMATION_SUFFIX

\* The account before the worker has served a request: any contacts, recipients
\* only of the lists the worker cannot serve; Fetch = new Client() (lines 190-197, 312).
Init ==
  /\ contacts \in SUBSET Emails
  /\ member \in [Emails \X ListIds -> {"none", "unsub", "sub"}]
  /\ \A p \in Emails \X ListIds :
       /\ member[p] # "none" => p[1] \in contacts
       /\ member[p] # "none" => ~HasConfirmation(p[2])
  /\ rq = [r \in Slots |-> IdleRequest]
  /\ overlap = FALSE
  /\ headers = 0
  /\ optIn = {}
  /\ fresh = {}
  /\ raced = {}
  /\ requestUrl = <<>>
  /\ params = NotParsed

(***************************************************************************)
(* handleRequest, one action per awaited call                              *)
(***************************************************************************)

\* The number of Client.post and Client.put calls a behaviour is followed for.
MaxAppends == 4

\* Client.post (264-276), up to `await fetch`: this.headers.append('Content-Type',
\* 'application/json') on the headers every request shares; the call is sent with
\* them and the execution waits for the remote.
post ==
  /\ headers < MaxAppends
  /\ headers' = headers + 1

\* Client.put (289-301), up to `await fetch`: the same append.
put ==
  /\ headers < MaxAppends
  /\ headers' = headers + 1

\* Mutant of Branch: the 'add' branch does not look at alreadySubscribed, so a
\* subscribed contact is sent the confirmation email again.
Branch_NoConflict(q) ==
  IF q.onList /\ q.alreadySubscribed /\ q.action = SUBSCRIBE THEN
    Respond(q, "redirect", 301, SUCCESS_URL \o EncodedInfo(q.emailAddr, q.listName))
  ELSE IF q.onList /\ q.action = ADD THEN
    [q EXCEPT !.pc = "send"]
  ELSE IF q.onList /\ ~q.alreadySubscribed /\ q.action = SUBSCRIBE THEN
    [q EXCEPT !.pc = "recipient"]
  ELSE
    Respond(q, "json", 500, DefaultMessage(q.emailAddr, q.listName))

\* Mutant of Branch: an 'add' for a contact on the list, not subscribed, finalizes
\* the subscription instead of sending the confirmation email.
Branch_SubscribeOnAdd(q) ==
  IF q.onList /\ q.alreadySubscribed /\ q.action = ADD THEN
    Respond(q, "json", 409, ConflictMessage(q.emailAddr, q.listName))
  ELSE IF q.onList /\ q.alreadySubscribed /\ q.action = SUBSCRIBE THEN
    Respond(q, "redirect", 301, SUCCESS_URL \o EncodedInfo(q.emailAddr, q.listName))
  ELSE IF q.onList /\ ~q.alreadySubscribed /\ q.action \in {ADD, SUBSCRIBE} THEN
    [q EXCEPT !.pc = "recipient"]
  ELSE
    Respond(q, "json", 500, DefaultMessage(q.emailAddr, q.listName))


\* Lines 683-772, up to the next await: the branch on (onList, alreadySubscribed,
\* action) and the final JSON response with the fallback message and status.
Branch(q) ==
  IF q.onList /\ q.alreadySubscribed /\ q.action = ADD THEN
    Respond(q, "json", 409, ConflictMessage(q.emailAddr, q.listName))
  ELSE IF q.onList /\ q.alreadySubscribed /\ q.action = SUBSCRIBE THEN
    Respond(q, "redirect", 301, SUCCESS_URL \o EncodedInfo(q.emailAddr, q.listName))
  ELSE IF q.onList /\ ~q.alreadySubscribed /\ q.action = ADD THEN
    [q EXCEPT !.pc = "send"]
  ELSE IF q.onList /\ ~q.alreadySubscribed /\ q.action = SUBSCRIBE THEN
    [q EXCEPT !.pc = "recipient"]
  ELSE
    Respond(q, "json", 500, DefaultMessage(q.emailAddr, q.listName))

\* Lines 605-612: the check of the required parameters.  Its Response is returned
\* from the callback of Array.map, not from handleRequest: the value is dropped
\* and handleRequest goes on to the list lookup, whatever is missing.
checkParameters(q) == [q EXCEPT !.pc = "lists"]

\* The requests that are followed when executions overlap: 'add' and 'subscribe'
\* for the address 'a@b' and the list 'news'.
RaceRequests == {ADD, SUBSCRIBE} \X {<<97, 64, 98>>} \X {NEWS}

\* Lines 594-617: a request arrives.  The runtime starts an execution of
\* handleRequest per fetch event (lines 114-116) and does not wait for the one
\* before to end; slot r2 is the execution that runs beside r1.
handleRequest(r) ==
  /\ rq[r].pc = "idle"
  /\ IF overlap
     THEN r = "r1" \/ rq["r1"].pc # "idle"
     ELSE r = "r1" /\ \A s \in Slots : rq[s].pc = "idle"
  /\ \E action \in Actions, emailAddr \in EmailParams, listName \in ListParams :
       /\ overlap => <<action, emailAddr, listName>> \in RaceRequests
       /\ rq' = [rq EXCEPT ![r] =
                checkParameters(
                  [IdleRequest EXCEPT !.action = action, !.emailAddr = emailAddr,
                                      !.listName = listName,
                                      !.pre = [contacts |-> contacts, member |-> member]])]
  /\ UNCHANGED <<contacts, member, overlap, headers, optIn, fresh, raced>>

\* Lines 619-621 and getAllContactLists (336-354): the lists of the account, an empty
\* array when the call fails, filtered by name.
getAllContactLists(r) ==
  /\ rq[r].pc = "lists"
  /\ \E o \in Outcomes(TRUE) :
       LET q == rq[r]
           contactLists == IF o.kind = "ok" THEN RemoteContactLists ELSE <<>>
           listDetails == SelectSeq(contactLists, LAMBDA l : l.name = q.listName)
       IN  rq' = [rq EXCEPT ![r] =
                    [q EXCEPT !.pc = "templates", !.listDetails = listDetails,
                              !.calls = Append(@, Call("getAllContactLists", o))]]
  /\ UNCHANGED <<contacts, member, overlap, headers, optIn, fresh, raced>>

\* Mutant of findTemplate: a missing template does not end the request.
findTemplate_NoCheck(q, emailTemplates) ==
  [q EXCEPT !.pc = "contact",
            !.emailTemplate = SelectSeq(emailTemplates,
                LAMBDA t : t.name = Str(q.listName) \o CONFIRMATION_SUFFIX)]

\* Lines 625-634: the template `${listName}-confirmation` among the templates, and
\* the 500 response when there is none.
findTemplate(q, emailTemplates) ==
  LET emailTemplate ==
        SelectSeq(emailTemplates, LAMBDA t : t.name = Str(q.listName) \o CONFIRMATION_SUFFIX)
      q1 == [q EXCEPT !.emailTemplate = emailTemplate]
  IN  IF emailTemplate = <<>>
      THEN Respond(q1, "json", 500, TemplateMessage(q.emailAddr, q.listName))
      ELSE [q1 EXCEPT !.pc = "contact"]

\* Line 624 and getTemplates (506-520): the templates, an empty array on failure.
getTemplates(r) ==
  /\ rq[r].pc = "templates"
  /\ \E o \in Outcomes(TRUE) :
       LET q == [rq[r] EXCEPT !.calls = Append(@, Call("getTemplates", o))]
       IN  rq' = [rq EXCEPT ![r] =
                    findTemplate(q, IF o.kind = "ok" THEN RemoteTemplates ELSE <<>>)]
  /\ UNCHANGED <<contacts, member, overlap, headers, optIn, fresh, raced>>

\* Lines 636-638 and getContact (436-449): {id, exists} of the contact.
getContact(r) ==
  /\ rq[r].pc = "contact"
  /\ \E o \in Outcomes(Str(rq[r].emailAddr) \in contacts) :
       LET q == [rq[r] EXCEPT !.calls = Append(@, Call("getContact", o))]
       IN  rq' = [rq EXCEPT ![r] =
                    IF o.kind = "ok"
                    THEN [q EXCEPT !.pc = "memberships", !.exists = TRUE,
                                   !.contactExists = TRUE,
                                   !.contactId = ContactIdOf(q.emailAddr)]
                    ELSE [q EXCEPT !.pc = "create"]]
  /\ UNCHANGED <<contacts, member, overlap, headers, optIn, fresh, raced>>

\* Data of GET /contact/{email}/getcontactslists: the lists of a contact.
RemoteMemberships(mem, e) ==
  LET all == [i \in DOMAIN RemoteContactLists |->
                [ListID |-> RemoteContactLists[i].id,
                 IsUnsub |-> mem[<<e, RemoteContactLists[i].id>>] # "sub"]]
  IN  SelectSeq(all, LAMBDA l : mem[<<e, l.ListID>>] # "none")

\* Mutant of cleanContactLists: IsUnsub is copied without the negation.
cleanContactLists_NoInvert(data) ==
  [i \in DOMAIN data |-> [id |-> data[i].ListID, subscribed |-> data[i].IsUnsub]]

\* Lines 391-396: {id: list.ListID, subscribed: !list.IsUnsub} of every list.
cleanContactLists(data) ==
  [i \in DOMAIN data |-> [id |-> data[i].ListID, subscribed |-> ~data[i].IsUnsub]]

\* Lines 643-658: the membership of the target list among the contact's lists.
\* listDetails.id throws when no list was found: in the filter callback, or as
\* the argument of addContactToList.
findContactList(q, contactLists) ==
  LET contactList == SelectSeq(contactLists, LAMBDA l : q.listDetails[1].id = l.id)
  IN  IF q.listDetails = <<>> THEN Throw(q)
      ELSE IF contactList # <<>>
      THEN Branch([q EXCEPT !.onList = TRUE,
                            !.alreadySubscribed = contactList[1].subscribed])
      ELSE [q EXCEPT !.pc = "attach"]

\* Line 642 and getContactLists (384-401): the contact's lists, an empty array on failure.
getContactLists(r) ==
  /\ rq[r].pc = "memberships"
  /\ \E o \in Outcomes(TRUE) :
       LET q == [rq[r] EXCEPT !.calls = Append(@, Call("getContactLists", o))]
       IN  rq' = [rq EXCEPT ![r] =
                    findContactList(q, IF o.kind = "ok"
                                       THEN cleanContactLists(RemoteMemberships(member, q.emailAddr))
                                       ELSE <<>>)]
  /\ UNCHANGED <<contacts, member, overlap, headers, optIn, fresh, raced>>

\* Mutant of contactCreated: the result of addContact is not looked at, the
\* contact is attached whether or not it was created.
contactCreated_Unchecked(q, contactAdded) ==
  IF q.listDetails = <<>> THEN Throw(q) ELSE [q EXCEPT !.pc = "attach"]


\* Lines 663-665: on a created contact go on to attach it (listDetails.id throws when
\* no list was found); otherwise fall through to the branch.
contactCreated(q, contactAdded) ==
  IF ~contactAdded THEN Branch(q)
  ELSE IF q.listDetails = <<>> THEN Throw(q)
  ELSE [q EXCEPT !.pc = "attach"]

\* The other executions, for the address of r, that wait at pc for the remote.
InFlight(r, pc) ==
  {s \in Slots \ {r} : rq[s].pc = pc /\ rq[s].emailAddr = rq[r].emailAddr}

\* Line 661 and addContact (319-322): Fetch.post sends POST /contact and the
\* execution waits for the answer.
addContact(r) ==
  /\ rq[r].pc = "create"
  /\ post
  /\ rq' = [rq EXCEPT ![r].pc = "creating"]
  /\ raced' = IF InFlight(r, "creating") # {} /\ rq[r].emailAddr \notin contacts
              THEN raced \cup {"addContact"} ELSE raced
  /\ UNCHANGED <<contacts, member, overlap, optIn, fresh>>

\* Mutant of addContactReturns: added is set whatever the remote answered.
addContactReturns_AddedUnchecked(r) ==
  /\ rq[r].pc = "creating"
  /\ \E o \in Outcomes(rq[r].emailAddr \in Emails \ contacts) :
       LET q == [rq[r] EXCEPT !.calls = Append(@, Call("addContact", o))]
       IN  /\ rq' = [rq EXCEPT ![r] = contactCreated(q, TRUE)]
           /\ contacts' = IF o.kind = "ok" THEN contacts \cup {q.emailAddr} ELSE contacts
  /\ UNCHANGED <<member, overlap, headers, optIn, fresh, raced>>

\* addContact (323-329) and Client.post (276-283): the remote answers; the contact
\* is created when it accepts, and added is true on status 201.
addContactReturns(r) ==
  /\ rq[r].pc = "creating"
  /\ \E o \in Outcomes(rq[r].emailAddr \in Emails \ contacts) :
       LET q == [rq[r] EXCEPT !.calls = Append(@, Call("addContact", o))]
       IN  /\ rq' = [rq EXCEPT ![r] = contactCreated(q, o.kind = "ok")]
           /\ contacts' = IF o.kind = "ok" THEN contacts \cup {q.emailAddr} ELSE contacts
  /\ UNCHANGED <<member, overlap, headers, optIn, fresh, raced>>

\* Mutant of contactAttached: the result of addContactToList is not looked at, the
\* contact counts as on the list.
contactAttached_AssumeOnList(q, addedToList, error) ==
  Branch([q EXCEPT !.onList = TRUE, !.contactExists = TRUE])


\* Lines 655-657 (the contact existed) and 667-681 (it was created): onList, and for
\* a created contact the 500 response that carries the error of the attachment.
contactAttached(q, addedToList, error) ==
  LET q1 == [q EXCEPT !.onList = addedToList, !.contactExists = TRUE]
  IN  IF ~q.exists /\ error # Undefined
      THEN Respond(q1, "json", 500, AttachMessage(q.emailAddr, q.listName, error))
      ELSE Branch(q1)

\* Lines 653, 665 and addContactToList (409-418): Fetch.post sends POST
\* /listrecipient with IsUnsubscribed: true and the execution waits for the answer.
addContactToList(r) ==
  /\ rq[r].pc = "attach"
  /\ post
  /\ rq' = [rq EXCEPT ![r].pc = "attaching"]
  /\ raced' = IF /\ \E s \in InFlight(r, "attaching") : rq[s].listDetails = rq[r].listDetails
                 /\ member[<<rq[r].emailAddr, rq[r].listDetails[1].id>>] = "none"
              THEN raced \cup {"addContactToList"} ELSE raced
  /\ UNCHANGED <<contacts, member, overlap, optIn, fresh>>

\* addContactToList (419-428) and Client.post (276-283): the remote answers.  It
\* refuses a recipient that already exists.
addContactToListReturns(r) ==
  /\ rq[r].pc = "attaching"
  /\ LET p == <<rq[r].emailAddr, rq[r].listDetails[1].id>>
     IN  \E o \in Outcomes(rq[r].emailAddr \in contacts /\ member[p] = "none") :
           LET c == CallWithError("addContactToList", o)
               q == [rq[r] EXCEPT !.calls = Append(@, c)]
           IN  /\ rq' = [rq EXCEPT ![r] = contactAttached(q, c.ok, c.err)]
               /\ member' = IF c.ok THEN [member EXCEPT ![p] = "unsub"] ELSE member
  /\ UNCHANGED <<contacts, overlap, headers, optIn, fresh, raced>>

\* Mutant of confirmationResult: a confirmation email that was not sent is sent again.
confirmationResult_Retry(q, confirmationSent, confirmationError) ==
  IF confirmationSent
  THEN Respond(q, "json", 200, SentMessage(q.emailAddr))
  ELSE IF Len(SelectSeq(q.calls, LAMBDA c : c.op = "sendEmail")) < 2
  THEN [q EXCEPT !.pc = "send"]
  ELSE Respond(q, "json", 500, confirmationError)


\* Mutant of confirmationResult: the provider's error text is not reported, the
\* default message is.
confirmationResult_DefaultOnly(q, confirmationSent, confirmationError) ==
  IF confirmationSent
  THEN Respond(q, "json", 200, SentMessage(q.emailAddr))
  ELSE Respond(q, "json", 500, DefaultMessage(q.emailAddr, q.listName))

\* Lines 724-733 and 768-772: the response after the confirmation email.
confirmationResult(q, confirmationSent, confirmationError) ==
  IF confirmationError # Undefined /\ confirmationError # <<>>
  THEN Respond(q, "json", 500, confirmationError)
  ELSE IF confirmationSent
  THEN Respond(q, "json", 200, SentMessage(q.emailAddr))
  ELSE Respond(q, "json", 500, DefaultMessage(q.emailAddr, q.listName))

\* Lines 719-723 and sendEmail (529-553): Fetch.post sends the confirmation email
\* to the send API and the execution waits for the answer.
sendEmail(r) ==
  /\ rq[r].pc = "send"
  /\ post
  /\ rq' = [rq EXCEPT ![r].pc = "sending"]
  /\ UNCHANGED <<contacts, member, overlap, optIn, fresh, raced>>

\* sendEmail (555-562) and Client.post (276-283): the remote answers; error is
\* err.message.
sendEmailReturns(r) ==
  /\ rq[r].pc = "sending"
  /\ \E o \in Outcomes(TRUE) :
       LET c == CallWithError("sendEmail", o)
           q == [rq[r] EXCEPT !.calls = Append(@, c)]
       IN  rq' = [rq EXCEPT ![r] = confirmationResult(q, c.ok, c.err)]
  /\ UNCHANGED <<contacts, member, overlap, headers, optIn, fresh, raced>>

\* Data of GET /listrecipient: every list recipient of the account.
RemoteRecipients(mem) ==
  LET n == Len(RemoteContactLists)
      all == [k \in 1..(Len(EmailOrder) * n) |->
                LET e == EmailOrder[((k - 1) \div n) + 1]
                    l == RemoteContactLists[((k - 1) % n) + 1].id
                IN  [ID |-> RecipientIdOf(e, l), ContactID |-> ContactIdOf(e),
                     ListID |-> l, email |-> e]]
  IN  SelectSeq(all, LAMBDA x : mem[<<x.email, x.ListID>>] # "none")

\* Lines 463-470: the ID of the first recipient of contactId on listId; undefined
\* when none matches (the error thrown at line 467 is caught at line 471).
findRecipient(data, contactId, listId) ==
  LET recipient == SelectSeq(data, LAMBDA x : x.ContactID = contactId /\ x.ListID = listId)
  IN  IF recipient = <<>> THEN Undefined ELSE <<recipient[1].ID>>

\* Lines 739, 485 and getRecipient (457-474); undefined as well when the call fails.
getRecipient(r) ==
  /\ rq[r].pc = "recipient"
  /\ \E o \in Outcomes(TRUE) :
       LET q == [rq[r] EXCEPT !.calls = Append(@, Call("getRecipient", o))]
       IN  rq' = [rq EXCEPT ![r] =
                    [q EXCEPT !.pc = "put",
                              !.recipientId =
                                 findRecipient(IF o.kind = "ok" THEN RemoteRecipients(member)
                                               ELSE <<>>,
                                               q.contactId, q.listDetails[1].id)]]
  /\ UNCHANGED <<contacts, member, overlap, headers, optIn, fresh, raced>>

\* The recipients a PUT /listrecipient/{recipientId} addresses: none for 'undefined'.
RecipientsWithId(mem, recipientId) ==
  {p \in Emails \X ListIds : mem[p] # "none" /\ <<RecipientIdOf(p[1], p[2])>> = recipientId}

\* The remote's 304 to a PUT that changes nothing.
NotModified ==
  [kind |-> "http", status |-> 304,
   statusText |-> <<78, 111, 116, 32, 77, 111, 100, 105, 102, 105, 101, 100>>,
   json |-> FALSE, ErrorCode |-> Undefined, ErrorMessage |-> Undefined,
   textOk |-> TRUE, text |-> <<>>]

\* Lines 739-745 and 753-762: {subscribed, error} of subscribeContact; with neither,
\* error.message throws.
subscriptionResult(q, subscribed, error) ==
  LET q1 == [q EXCEPT !.subscribed = subscribed, !.error = error]
  IN  IF ~subscribed /\ error = Undefined THEN Throw(q1) ELSE [q1 EXCEPT !.pc = "notify"]

\* subscribeContact (486-489): Fetch.put sends PUT /listrecipient/{recipientId} with
\* IsUnsubscribed: false and the execution waits for the answer.
subscribeContact(r) ==
  /\ rq[r].pc = "put"
  /\ put
  /\ rq' = [rq EXCEPT ![r].pc = "putting"]
  /\ UNCHANGED <<contacts, member, overlap, optIn, fresh, raced>>

\* subscribeContact (491-499) and Client.put (301-308): the remote answers.
\* Client.put throws on every response that is not ok, 304 included, so line 492
\* sees ok responses only.
subscribeContactReturns(r) ==
  /\ rq[r].pc = "putting"
  /\ LET target == RecipientsWithId(member, rq[r].recipientId)
         changes == \E p \in target : member[p] = "unsub"
         replies == Outcomes(changes)
                    \cup (IF target # {} /\ ~changes
                          THEN {[kind |-> "error", response |-> NotModified]} ELSE {})
     IN  \E o \in replies :
           LET c == CallWithError("subscribeContact", o)
               q == [rq[r] EXCEPT !.calls = Append(@, c)]
           IN  /\ rq' = [rq EXCEPT ![r] = subscriptionResult(q, c.ok, c.err)]
               /\ member' = IF c.ok
                            THEN [p \in DOMAIN member |->
                                    IF p \in target THEN "sub" ELSE member[p]]
                            ELSE member
  /\ UNCHANGED <<contacts, overlap, headers, optIn, fresh, raced>>

\* Mutant of subscriptionRedirect: a webhook post that failed is not caught, the
\* request ends with the exception.
subscriptionRedirect_NotifyThrows(q) ==
  IF ~q.calls[Len(q.calls)].ok THEN Throw(q)
  ELSE IF q.subscribed
  THEN Respond(q, "redirect", 301, SUCCESS_URL \o EncodedInfo(q.emailAddr, q.listName))
  ELSE Respond(q, "redirect", 301,
               FAILURE_URL \o EncodedError(q.emailAddr, q.listName, q.error))


\* Lines 745-765: the redirect to the success page, or to the failure page with the
\* error message in the encoded query string.
subscriptionRedirect(q) ==
  IF q.subscribed
  THEN Respond(q, "redirect", 301, SUCCESS_URL \o EncodedInfo(q.emailAddr, q.listName))
  ELSE Respond(q, "redirect", 301,
               FAILURE_URL \o EncodedError(q.emailAddr, q.listName, q.error))

\* Lines 747, 762 and notifySlack (163-174): post to the webhook; a fetch that
\* rejects is caught and logged.
notifySlack(r) ==
  /\ rq[r].pc = "notify"
  /\ \E posted \in BOOLEAN :
       LET q == rq[r]
           errorMsg == IF q.subscribed THEN Undefined ELSE q.error
           c == [op |-> "notifySlack", ok |-> posted, err |-> Undefined, arg |-> errorMsg]
       IN  rq' = [rq EXCEPT ![r] = subscriptionRedirect([q EXCEPT !.calls = Append(@, c)])]
  /\ UNCHANGED <<contacts, member, overlap, headers, optIn, fresh, raced>>

\* Whether a request's history holds a successful call of op.
Succeeded(q, op) == \E i \in DOMAIN q.calls : q.calls[i].op = op /\ q.calls[i].ok

\* event.respondWith (lines 114-116): the response leaves, the execution ends.
respondWith(r) ==
  /\ rq[r].pc = "done"
  /\ LET q == rq[r]
         sent == q.action = ADD /\ q.response.status = 200
         key == {<<q.emailAddr, q.listDetails[1].id>>}
     IN  /\ optIn' = IF sent THEN optIn \cup key ELSE optIn
         /\ fresh' = IF sent /\ Succeeded(q, "addContact")
                     THEN {p \in fresh : p[1] # q.emailAddr} \cup key
                     ELSE {p \in fresh : p[1] # q.emailAddr}
  /\ rq' = [rq EXCEPT ![r] = IdleRequest]
  /\ UNCHANGED <<contacts, member, overlap, headers, raced>>

Next ==
  /\ \E r \in Slots :
       \/ handleRequest(r)
       \/ getAllContactLists(r)
       \/ getTemplates(r)
       \/ getContact(r)
       \/ getContactLists(r)
       \/ addContact(r)
       \/ addContactReturns(r)
       \/ addContactToList(r)
       \/ addContactToListReturns(r)
       \/ sendEmail(r)
       \/ sendEmailReturns(r)
       \/ getRecipient(r)
       \/ subscribeContact(r)
       \/ subscribeContactReturns(r)
       \/ notifySlack(r)
       \/ respondWith(r)
  /\ UNCHANGED <<requestUrl, params>>

\* Requests served one after the other.
Spec == Init /\ [][Next]_vars

\* An account without contacts, served by executions that overlap.
InitRace ==
  /\ contacts = {}
  /\ member = [p \in Emails \X ListIds |-> "none"]
  /\ rq = [r \in Slots |-> IdleRequest]
  /\ overlap = TRUE
  /\ headers = 0
  /\ optIn = {}
  /\ fresh = {}
  /\ raced = {}
  /\ requestUrl = <<>>
  /\ params = NotParsed

\* Requests served while another request awaits a remote call.
SpecRace == InitRace /\ [][Next]_vars


(***************************************************************************)
(* What the reader of a redirect does with its query string: atob, then    *)
(* decodeURIComponent                                                      *)
(***************************************************************************)

\* The value of a base64 character.
B64Value(c) ==
  IF c \in 65..90 THEN c - 65
  ELSE IF c \in 97..122 THEN c - 71
  ELSE IF c \in 48..57 THEN c + 4
  ELSE IF c = 43 THEN 62 ELSE 63

\* atob(s): four characters to three bytes, fewer where the group is padded.
RECURSIVE atob(_)
atob(s) ==
  IF Len(s) < 4 THEN <<>>
  ELSE LET a == B64Value(s[1])
           b == B64Value(s[2])
           c == B64Value(s[3])
           d == B64Value(s[4])
           group == IF s[3] = 61 THEN <<a * 4 + (b \div 16)>>
                    ELSE IF s[4] = 61 THEN <<a * 4 + (b \div 16), (b % 16) * 16 + (c \div 4)>>
                    ELSE <<a * 4 + (b \div 16), (b % 16) * 16 + (c \div 4), (c % 4) * 64 + d>>
       IN  group \o atob(SubSeq(s, 5, Len(s)))

\* The value of a hexadecimal digit.
HexValue(c) == IF c \in 48..57 THEN c - 48 ELSE IF c \in 65..70 THEN c - 55 ELSE c - 87

\* The byte of the escape %XX that starts at position i of s.
EscapedByte(s, i) == 16 * HexValue(s[i + 1]) + HexValue(s[i + 2])

\* The UTF-16 code units of code point cp: itself, or the surrogate pair of a code
\* point above the basic plane.
CodeUnits(cp) ==
  IF cp < 65536 THEN <<cp>>
  ELSE <<55296 + ((cp - 65536) \div 1024), 56320 + ((cp - 65536) % 1024)>>

\* decodeURIComponent(s): every %XX escape back to its byte, the bytes of a UTF-8
\* sequence (of one to four bytes) back to the code point.
RECURSIVE decodeURIComponent(_)
decodeURIComponent(s) ==
  IF s = <<>> THEN <<>>
  ELSE IF Head(s) # 37 THEN <<Head(s)>> \o decodeURIComponent(Tail(s))
  ELSE LET b1 == EscapedByte(s, 1)
       IN  IF b1 < 128 THEN <<b1>> \o decodeURIComponent(SubSeq(s, 4, Len(s)))
           ELSE IF b1 < 224
           THEN <<(b1 - 192) * 64 + (EscapedByte(s, 4) - 128)>>
                \o decodeURIComponent(SubSeq(s, 7, Len(s)))
           ELSE IF b1 < 240
           THEN <<(b1 - 224) * 4096 + (EscapedByte(s, 4) - 128) * 64 + (EscapedByte(s, 7) - 128)>>
                \o decodeURIComponent(SubSeq(s, 10, Len(s)))
           ELSE CodeUnits((b1 - 240) * 262144 + (EscapedByte(s, 4) - 128) * 4096
                          + (EscapedByte(s, 7) - 128) * 64 + (EscapedByte(s, 10) - 128))
                \o decodeURIComponent(SubSeq(s, 13, Len(s)))

\* Whether string s holds string part.
Contains(s, part) ==
  \E i \in 1..(Len(s) - Len(part) + 1) : SubSeq(s, i, i + Len(part) - 1) = part

\* Whether string s starts with string part.
StartsWith(s, part) == Len(s) >= Len(part) /\ SubSeq(s, 1, Len(part)) = part

\* The query string of a URL: what follows its first '?'.
QueryOf(url) ==
  LET i == CHOOSE k \in 1..Len(url) : url[k] = 63 /\ \A j \in 1..(k - 1) : url[j] # 63
  IN  SubSeq(url, i + 1, Len(url))

\* What the success and failure pages read from a redirect.
DecodedPayload(url) == decodeURIComponent(atob(QueryOf(url)))

(***************************************************************************)
(* The history of a request                                                *)
(***************************************************************************)

\* The functions that change the remote account or send mail.
Mutators == {"addContact", "addContactToList", "subscribeContact", "sendEmail"}

\* The names of the calls of a request, in the order they were issued.
OpsOf(q) == [i \in DOMAIN q.calls |-> q.calls[i].op]

\* The calls of a request that are mutator calls.
MutatorCalls(q) == SelectSeq(q.calls, LAMBDA c : c.op \in Mutators)

\* The calls of a request to one function.
CallsOf(q, op) == SelectSeq(q.calls, LAMBDA c : c.op = op)

\* A request that has been answered.
Answered(q) == q.pc = "done"


(***************************************************************************)
(* Claims                                                                  *)
(***************************************************************************)

\* A request that lacks one of the required query parameters.
MissingParameter(q) ==
  q.action = Undefined \/ q.emailAddr = Undefined \/ q.listName = Undefined

\* C1: a request that lacks action, emailAddr or listName issues no remote call
\* at all and is answered 500 'Unable to parse request.'.
C1_MissingParameterRejected ==
  \A r \in Slots :
    (rq[r].pc # "idle" /\ MissingParameter(rq[r])) =>
      /\ rq[r].calls = <<>>
      /\ Answered(rq[r]) =>
           rq[r].response = [kind |-> "json", status |-> 500, text |-> UNABLE_TO_PARSE]

\* C2: a list recipient is subscribed by the worker only after an earlier 'add'
\* request for the same address and list was answered 200 (the contact on the list,
\* unsubscribed, the confirmation email sent), and no 'subscribe' request both
\* attaches the contact to the list and finalizes the subscription.
C2_DoubleOptIn ==
  \A r \in Slots :
    LET q == rq[r]
    IN  /\ Succeeded(q, "subscribeContact") =>
             <<q.emailAddr, q.listDetails[1].id>> \in optIn
        /\ q.action = SUBSCRIBE =>
             ~(Succeeded(q, "addContactToList") /\ Succeeded(q, "subscribeContact"))


\* The resolution of a request found the contact, found it on the target list, and
\* found it subscribed (lines 638, 645, 648).
FoundSubscribed(q) == q.exists /\ q.onList /\ q.alreadySubscribed

\* C3: the contact exists, is on the target list and subscribed, the action is
\* 'add': the answer is 409, its message holds the email address and the list
\* name, and the request issued no mutator call.
C3_ConflictOnAdd ==
  \A r \in Slots :
    LET q == rq[r]
    IN  (Answered(q) /\ q.action = ADD /\ FoundSubscribed(q)) =>
          /\ q.response.kind = "json"
          /\ q.response.status = 409
          /\ Contains(q.response.text, q.emailAddr)
          /\ Contains(q.response.text, q.listName)
          /\ MutatorCalls(q) = <<>>

\* C3's case: an 'add' for a contact the remote holds subscribed to the list was answered.
C3_Witness ==
  \E r \in Slots :
    /\ Answered(rq[r]) /\ rq[r].action = ADD /\ FoundSubscribed(rq[r])
    /\ rq[r].pre.member[<<rq[r].emailAddr, rq[r].listDetails[1].id>>] = "sub"

\* C4: the contact is on the target list and subscribed, the action is
\* 'subscribe': the answer is a 301 redirect to the success URL, its whole query
\* string decodes (atob, then decodeURIComponent) to exactly
\* emailAddr={email}&listName={listName}, and the request issued no mutator call.
C4_RedirectWhenSubscribed ==
  \A r \in Slots :
    LET q == rq[r]
    IN  (Answered(q) /\ q.action = SUBSCRIBE /\ FoundSubscribed(q)) =>
          /\ q.response.kind = "redirect"
          /\ q.response.status = 301
          /\ StartsWith(q.response.text, SUCCESS_URL)
          /\ DecodedPayload(q.response.text)
               = Cat(<<EMAIL_KEY, q.emailAddr, LIST_KEY, q.listName>>)
          /\ MutatorCalls(q) = <<>>

\* C4's case: a 'subscribe' for a subscribed contact whose address needs escaping
\* was answered.
C4_Witness ==
  \E r \in Slots :
    /\ Answered(rq[r]) /\ rq[r].action = SUBSCRIBE /\ FoundSubscribed(rq[r])
    /\ \E i \in DOMAIN rq[r].emailAddr : ~UriUnreserved(rq[r].emailAddr[i])
    /\ rq[r].response.kind = "redirect"


\* The email address of a request had no contact when the request arrived.
NewEmail(q) == q.emailAddr \in Emails \ q.pre.contacts

\* The lookups of a request found the target list and its confirmation template.
FoundListAndTemplate(q) == q.listDetails # <<>> /\ q.emailTemplate # <<>>

\* create-contact, attach-to-list, send-confirmation-email.
CreateAttachSend == <<"addContact", "addContactToList", "sendEmail">>

\* C5 as stated: an 'add' for an email without a contact, the list and its template
\* found: create, attach and send are each invoked exactly once, in that order, and
\* the answer is 200 if all three succeed.
C5_CreateAttachSendOnce ==
  \A r \in Slots :
    LET q == rq[r]
        m == MutatorCalls(q)
    IN  (Answered(q) /\ q.action = ADD /\ NewEmail(q) /\ FoundListAndTemplate(q)) =>
          /\ [i \in DOMAIN m |-> m[i].op] = CreateAttachSend
          /\ (\A i \in DOMAIN m : m[i].ok) => q.response.status = 200

\* C5 as amended: create is invoked exactly once; attach is invoked, once, only
\* after create succeeded, and send, once, only after attach succeeded; the answer
\* is 200 exactly when all three were invoked and succeeded.
C5_CreateAttachSendInOrder ==
  \A r \in Slots :
    LET q == rq[r]
        m == MutatorCalls(q)
    IN  (Answered(q) /\ q.action = ADD /\ NewEmail(q) /\ FoundListAndTemplate(q)) =>
          /\ Len(m) \in 1..3
          /\ \A i \in DOMAIN m : m[i].op = CreateAttachSend[i]
          /\ \A i \in 1..(Len(m) - 1) : m[i].ok
          /\ Len(m) < 3 => ~m[Len(m)].ok
          /\ q.response.status = 200 <=> (Len(m) = 3 /\ m[3].ok)

\* C5's case: an 'add' for a new email created, attached and sent, and was answered 200.
C5_Witness ==
  \E r \in Slots :
    /\ Answered(rq[r]) /\ rq[r].action = ADD /\ NewEmail(rq[r])
    /\ OpsOf(rq[r]) = <<"getAllContactLists", "getTemplates", "getContact">> \o CreateAttachSend
    /\ \A i \in DOMAIN rq[r].calls : i > 3 => rq[r].calls[i].ok
    /\ rq[r].response.status = 200
    /\ rq[r].emailAddr \in contacts
    /\ member[<<rq[r].emailAddr, rq[r].listDetails[1].id>>] = "unsub"

\* The error message a failed finalize-subscription call returned.
FinalizeError(q) == CallsOf(q, "subscribeContact")[1].err

\* C6: a 'subscribe' request whose finalize-subscription mutation fails is answered
\* with a 301 redirect to the failure URL whose decoded payload holds
\* error={message}, and the Notifier is invoked exactly once, with that message.
C6_FailureRedirect ==
  \A r \in Slots :
    LET q == rq[r]
    IN  (Answered(q) /\ q.action = SUBSCRIBE
         /\ CallsOf(q, "subscribeContact") # <<>> /\ ~Succeeded(q, "subscribeContact")) =>
          /\ q.response.kind = "redirect"
          /\ q.response.status = 301
          /\ StartsWith(q.response.text, FAILURE_URL)
          /\ Contains(DecodedPayload(q.response.text),
                      <<101, 114, 114, 111, 114, 61>> \o FinalizeError(q))
          /\ Len(CallsOf(q, "notifySlack")) = 1
          /\ CallsOf(q, "notifySlack")[1].arg = FinalizeError(q)

\* C6's case: a 'subscribe' whose PUT the remote refused with a JSON error was answered.
C6_Witness ==
  \E r \in Slots :
    /\ Answered(rq[r]) /\ rq[r].action = SUBSCRIBE
    /\ CallsOf(rq[r], "subscribeContact") # <<>>
    /\ ~Succeeded(rq[r], "subscribeContact")
    /\ Succeeded(rq[r], "getRecipient")
    /\ FinalizeError(rq[r]) = <<77, 74, 49, 56, 58, 32, 100, 117, 112>>

\* C7: once the list recipient is subscribed in the remote account, a 'subscribe'
\* request for it (the list and the template found) is answered with the success
\* redirect, issues no mutator call and leaves the remote account as it was.
C7_SubscribeIdempotent ==
  \A r \in Slots :
    LET q == rq[r]
    IN  (Answered(q) /\ q.action = SUBSCRIBE /\ q.emailAddr \in Emails
         /\ FoundListAndTemplate(q)
         /\ q.pre.member[<<q.emailAddr, q.listDetails[1].id>>] = "sub") =>
          /\ q.response = [kind |-> "redirect", status |-> 301,
                           text |-> SUCCESS_URL \o EncodedInfo(q.emailAddr, q.listName)]
          /\ MutatorCalls(q) = <<>>
          /\ member = q.pre.member
          /\ contacts = q.pre.contacts


\* C8: when the confirmation template is not found the answer is 500, whatever the
\* action, and the request issued the list lookup and the template lookup only.
C8_MissingTemplate ==
  \A r \in Slots :
    LET q == rq[r]
    IN  (q.pc \notin {"idle", "lists", "templates"} /\ q.emailTemplate = <<>>) =>
          /\ Answered(q)
          /\ q.response.kind = "json"
          /\ q.response.status = 500
          /\ OpsOf(q) = <<"getAllContactLists", "getTemplates">>

\* C8's case: a 'subscribe' for a list that exists and has no confirmation
\* template was answered, both lookups having succeeded.
C8_Witness ==
  \E r \in Slots :
    /\ Answered(rq[r]) /\ rq[r].emailTemplate = <<>>
    /\ rq[r].action = SUBSCRIBE
    /\ rq[r].listDetails # <<>>
    /\ \A i \in DOMAIN rq[r].calls : rq[r].calls[i].ok

\* C9: after an 'add' for a new email was answered 200, the next request for that
\* email, a 'subscribe' for the same list whose remote calls all succeed, sets
\* the recipient's subscribed flag, invokes the Notifier once and without error,
\* and is answered with the 301 redirect to the success URL.
C9_TwoStepFlow ==
  \A r \in Slots :
    LET q == rq[r]
    IN  (Answered(q) /\ q.action = SUBSCRIBE /\ q.listDetails # <<>>
         /\ <<q.emailAddr, q.listDetails[1].id>> \in fresh
         /\ \A i \in DOMAIN q.calls : q.calls[i].ok) =>
          /\ q.pre.member[<<q.emailAddr, q.listDetails[1].id>>] = "unsub"
          /\ member[<<q.emailAddr, q.listDetails[1].id>>] = "sub"
          /\ Len(CallsOf(q, "notifySlack")) = 1
          /\ CallsOf(q, "notifySlack")[1].arg = Undefined
          /\ q.response = [kind |-> "redirect", status |-> 301,
                           text |-> SUCCESS_URL \o EncodedInfo(q.emailAddr, q.listName)]

\* C9's case: the 'subscribe' that follows such an 'add' was answered, every call
\* having succeeded.
C9_Witness ==
  \E r \in Slots :
    /\ Answered(rq[r]) /\ rq[r].action = SUBSCRIBE /\ rq[r].listDetails # <<>>
    /\ <<rq[r].emailAddr, rq[r].listDetails[1].id>> \in fresh
    /\ \A i \in DOMAIN rq[r].calls : rq[r].calls[i].ok
    /\ Succeeded(rq[r], "subscribeContact")

\* C10: the contact is on the target list and not subscribed, the action is 'add':
\* the confirmation email is sent exactly once, the answer is 200 'A confirmation
\* email has been sent to ...' when the send succeeds and 500 with the provider's
\* error text when it fails, and the recipient's subscribed flag is as it was.
C10_ConfirmationEmail ==
  \A r \in Slots :
    LET q == rq[r]
        sent == CallsOf(q, "sendEmail")
        p == <<q.emailAddr, q.listDetails[1].id>>
    IN  (Answered(q) /\ q.action = ADD /\ q.onList /\ ~q.alreadySubscribed) =>
          /\ Len(sent) = 1
          /\ sent[1].ok =>
               q.response = [kind |-> "json", status |-> 200, text |-> SentMessage(q.emailAddr)]
          /\ ~sent[1].ok =>
               q.response = [kind |-> "json", status |-> 500, text |-> sent[1].err]
          /\ member[p] = "unsub"
          /\ q.pre.member[p] # "sub"

\* C10's case: an 'add' for a contact found on the list, unsubscribed, whose
\* confirmation email the provider refused.
C10_Witness ==
  \E r \in Slots :
    /\ Answered(rq[r]) /\ rq[r].action = ADD /\ rq[r].onList /\ ~rq[r].alreadySubscribed
    /\ rq[r].pre.member[<<rq[r].emailAddr, rq[r].listDetails[1].id>>] = "unsub"
    /\ CallsOf(rq[r], "sendEmail") # <<>>
    /\ ~Succeeded(rq[r], "sendEmail")
    /\ rq[r].response.text = GENERAL_ERROR


\* The calls of a request to subscribeContact whose PUT the remote answered 304.
NotModifiedPuts(q) ==
  SelectSeq(CallsOf(q, "subscribeContact"),
            LAMBDA c : ~c.ok /\ c.err = ErrorMessageOf(NotModified))

\* C11: a PUT of subscribeContact that the remote answers 304 counts as a success:
\* subscribed is true, there is no error, and the request is answered with the
\* redirect to the success URL.
C11_NotModifiedIsSuccess ==
  \A r \in Slots :
    LET q == rq[r]
    IN  (Answered(q) /\ NotModifiedPuts(q) # <<>>) =>
          /\ q.subscribed
          /\ q.error = Undefined
          /\ q.response = [kind |-> "redirect", status |-> 301,
                           text |-> SUCCESS_URL \o EncodedInfo(q.emailAddr, q.listName)]


\* C12: a recipient becomes subscribed only in the step in which the PUT of
\* subscribeContact succeeds, and that PUT belongs to a 'subscribe' request, never
\* to an 'add' request; a recipient that addContactToList creates is unsubscribed.
C12_OnlyFinalizeSubscribes ==
  [][\A p \in Emails \X ListIds :
       /\ (member[p] # "sub" /\ member'[p] = "sub") =>
            \E r \in Slots :
              /\ rq[r].pc = "putting"
              /\ rq[r].action = SUBSCRIBE
              /\ Len(CallsOf(rq'[r], "subscribeContact")) = 1
              /\ Succeeded(rq'[r], "subscribeContact")
       /\ (member[p] = "none" /\ member'[p] # "none") =>
            /\ member'[p] = "unsub"
            /\ \E r \in Slots : rq[r].pc = "attaching" /\ Succeeded(rq'[r], "addContactToList")
    ]_vars

\* C12's case: an 'add' request created the contact, attached it and was answered
\* 200, and the recipient is unsubscribed.
C12_Witness ==
  \E r \in Slots :
    /\ Answered(rq[r]) /\ rq[r].action = ADD
    /\ Succeeded(rq[r], "addContactToList")
    /\ rq[r].response.status = 200
    /\ rq[r].pre.member[<<rq[r].emailAddr, rq[r].listDetails[1].id>>] = "none"
    /\ member[<<rq[r].emailAddr, rq[r].listDetails[1].id>>] = "unsub"


\* C13: every request that is answered is answered with an HTTP response, a JSON
\* body with status 200, 409 or 500 or a redirect with status 301; none ends in an
\* exception that leaves handleRequest.
C13_AlwaysResponds ==
  \A r \in Slots :
    Answered(rq[r]) =>
      \/ rq[r].response.kind = "json" /\ rq[r].response.status \in {200, 409, 500}
      \/ rq[r].response.kind = "redirect" /\ rq[r].response.status = 301


\* C14: the headers of the CRM client are built once and never modified: no call
\* of any request appends to them, so every call sends the headers of the constructor.
C14_HeadersReadOnly == headers = 0


\* A request goes on as the creator of its contact: it did not find the contact
\* and is at, or past, the attachment.
ActsAsCreator(q) ==
  /\ ~q.exists
  /\ q.pc \in {"attach", "attaching"} \/ CallsOf(q, "addContactToList") # <<>>

\* C15: nothing in the worker keeps two requests for the same address apart.  Every
\* request whose lookup found no contact issues create-contact, whatever another
\* execution for that address is doing or has done; no duplicate comes of it only
\* because the remote accepts at most one create-contact for an address and at most
\* one attach-to-list for an address and a list, and a request goes on as the
\* creator of the contact only when its own create-contact was accepted.
C15_NoCrossRequestLock ==
  /\ \A r \in Slots :
       LET q == rq[r]
       IN  /\ (CallsOf(q, "getContact") # <<>> /\ ~q.exists) =>
                q.pc \in {"create", "creating"} \/ CallsOf(q, "addContact") # <<>>
           /\ ActsAsCreator(q) => Succeeded(q, "addContact")
  /\ \A r, s \in Slots :
       (r # s /\ rq[r].pc # "idle" /\ rq[r].emailAddr = rq[s].emailAddr) =>
         /\ ~(Succeeded(rq[r], "addContact") /\ Succeeded(rq[s], "addContact"))
         /\ rq[r].listDetails = rq[s].listDetails =>
              ~(Succeeded(rq[r], "addContactToList") /\ Succeeded(rq[s], "addContactToList"))

\* C15's case: two executions for an address without a contact have had their
\* create-contact calls in flight at once, and two executions have had their
\* attach-to-list calls for that address and list in flight at once; of the two
\* attachments the remote accepted one and refused the other.
C15_Witness ==
  /\ raced = {"addContact", "addContactToList"}
  /\ \E r, s \in Slots :
       /\ r # s
       /\ rq[r].emailAddr = rq[s].emailAddr
       /\ Succeeded(rq[r], "addContactToList")
       /\ CallsOf(rq[s], "addContactToList") # <<>>
       /\ ~Succeeded(rq[s], "addContactToList")


\* A request whose create-contact call or attach-to-list call failed.
NotPutOnList(q) ==
  \E i \in DOMAIN q.calls :
    q.calls[i].op \in {"addContact", "addContactToList"} /\ ~q.calls[i].ok

\* C16: when create-contact failed, or attach-to-list failed for a new or for an
\* existing contact, the request is answered 500 and has called neither
\* send-confirmation-email nor finalize-subscription nor the Notifier.
C16_NotOnListIs500 ==
  \A r \in Slots :
    LET q == rq[r]
    IN  NotPutOnList(q) =>
          /\ Answered(q)
          /\ q.response.kind = "json"
          /\ q.response.status = 500
          /\ ~q.onList
          /\ \A i \in DOMAIN q.calls :
               q.calls[i].op \notin {"sendEmail", "getRecipient", "subscribeContact", "notifySlack"}

\* C16's case: a 'subscribe' for an existing contact whose attachment to the list
\* failed, answered with the fallback message.
C16_Witness ==
  \E r \in Slots :
    /\ Answered(rq[r]) /\ rq[r].exists /\ rq[r].action = SUBSCRIBE
    /\ CallsOf(rq[r], "addContactToList") # <<>>
    /\ ~Succeeded(rq[r], "addContactToList")
    /\ rq[r].response.text = DefaultMessage(rq[r].emailAddr, rq[r].listName)


\* C17: a request calls each mutator at most once, whatever the remote answers, and
\* issues no mutator call at all after a mutator call that failed.
C17_NoRetry ==
  \A r \in Slots :
    LET m == MutatorCalls(rq[r])
    IN  /\ \A op \in Mutators : Len(CallsOf(rq[r], op)) <= 1
        /\ \A i \in DOMAIN m : ~m[i].ok => i = Len(m)

\* C17's case: an 'add' request created and attached the contact, the confirmation
\* email failed, and the request was answered.
C17_Witness ==
  \E r \in Slots :
    /\ Answered(rq[r])
    /\ Succeeded(rq[r], "addContact") /\ Succeeded(rq[r], "addContactToList")
    /\ CallsOf(rq[r], "sendEmail") # <<>> /\ ~Succeeded(rq[r], "sendEmail")
    /\ rq[r].response.status = 500


\* A request for an address and a list whose recipient was subscribed in the remote
\* account when the request arrived.
SubscribedAtArrival(q) ==
  /\ q.pc # "idle"
  /\ q.emailAddr \in Emails
  /\ q.listDetails # <<>>
  /\ q.pre.member[<<q.emailAddr, q.listDetails[1].id>>] = "sub"

\* C18: for a contact that is subscribed to the target list in the remote account,
\* no request calls send-confirmation-email and none calls attach-to-list (which
\* attaches as unsubscribed), whatever the action and whatever the read calls return.
C18_NotOverEmailed ==
  \A r \in Slots :
    SubscribedAtArrival(rq[r]) =>
      \A i \in DOMAIN rq[r].calls :
        rq[r].calls[i].op \notin {"sendEmail", "addContactToList"}


\* The redirect of a 'subscribe' request after subscribeContact, as a function of
\* what subscribeContact returned and of nothing else.
RedirectAfterFinalize(q) ==
  [kind |-> "redirect", status |-> 301,
   text |-> IF Succeeded(q, "subscribeContact")
            THEN SUCCESS_URL \o EncodedInfo(q.emailAddr, q.listName)
            ELSE FAILURE_URL \o EncodedError(q.emailAddr, q.listName, FinalizeError(q))]

\* C19: the Notifier is called only by a 'subscribe' request that found the contact
\* on the list and not subscribed, once, as the call that follows subscribeContact;
\* the request then ends with a response, never an exception, and the response is
\* the same whether the webhook post succeeded or failed.
C19_NotifierOffCriticalPath ==
  \A r \in Slots :
    LET q == rq[r]
        n == Len(q.calls)
    IN  /\ q.pc = "notify" =>
             q.action = SUBSCRIBE /\ q.onList /\ ~q.alreadySubscribed
             /\ CallsOf(q, "notifySlack") = <<>>
             /\ q.calls[n].op = "subscribeContact"
        /\ CallsOf(q, "notifySlack") # <<>> =>
             /\ q.action = SUBSCRIBE /\ q.onList /\ ~q.alreadySubscribed
             /\ Len(CallsOf(q, "notifySlack")) = 1
             /\ q.calls[n].op = "notifySlack"
             /\ q.calls[n - 1].op = "subscribeContact"
             /\ Answered(q)
             /\ q.response = RedirectAfterFinalize(q)

\* C19's case: the subscription was finalized, the webhook post failed, and the
\* request was answered with the redirect to the success URL.
C19_Witness ==
  \E r \in Slots :
    /\ Answered(rq[r])
    /\ Succeeded(rq[r], "subscribeContact")
    /\ CallsOf(rq[r], "notifySlack") # <<>>
    /\ ~Succeeded(rq[r], "notifySlack")
    /\ rq[r].response.status = 301
    /\ StartsWith(rq[r].response.text, SUCCESS_URL)


\* The error detail in the stated order: '{code}: {message}' when the body parses as
\* JSON, else the body read as text, else 'General Error'.
DetailAsStated(response) ==
  IF response.json
  THEN Cat(<<Str(response.ErrorCode), <<58, 32>>, Str(response.ErrorMessage)>>)
  ELSE IF response.textOk THEN response.text
  ELSE GENERAL_ERROR

\* C20: the message of the error a failed CRM call returned to handleRequest is,
\* for every non-success response, the detail resolved in the stated order.
C20_ErrorDetailOrder ==
  \A r \in Slots :
    \A i \in DOMAIN rq[r].calls :
      LET c == rq[r].calls[i]
      IN  (c.op \in {"addContactToList", "sendEmail", "subscribeContact"} /\ ~c.ok) =>
            \A e \in ErrorResponses :
              (e.kind = "http" /\ c.reply = <<e.kind, e.status>>) =>
                c.err = DetailAsStated(e)


\* The recipients of the account's listing that match the contact ID and the list
\* ID getRecipient was called with.
MatchingRecipients(q) ==
  SelectSeq(RemoteRecipients(member),
            LAMBDA x : x.ContactID = q.contactId /\ x.ListID = q.listDetails[1].id)

\* C21: getRecipient, its listing read, returns the ID of the first recipient whose
\* contact ID and list ID both match, and when none matches its caller sees an
\* error: subscribeContact does not go on to its PUT without a recipient ID.
C21_RecipientFoundOrError ==
  \A r \in Slots :
    LET q == rq[r]
    IN  (q.pc = "put" /\ q.calls[Len(q.calls)].op = "getRecipient" /\ q.calls[Len(q.calls)].ok) =>
          /\ MatchingRecipients(q) # <<>>
          /\ q.recipientId = <<MatchingRecipients(q)[1].ID>>


\* C22: finalize-subscription is called with the ID of the contact that has the
\* request's address, never with the 0 of a contact that was absent at lookup, and
\* its PUT is issued for the recipient that links that contact to the target list,
\* never for an unresolved recipient ID.
C22_PutTargetsTheRecipient ==
  \A r \in Slots :
    LET q == rq[r]
    IN  /\ q.pc \in {"recipient", "put", "putting"} =>
             q.contactId # 0 /\ q.contactId = ContactIdOf(q.emailAddr)
        /\ q.pc \in {"put", "putting"} =>
             /\ q.recipientId # Undefined
             /\ q.recipientId = <<RecipientIdOf(q.emailAddr, q.listDetails[1].id)>>


\* C23: a request, all its parameters present, whose list lookup found no list
\* named listName, or failed, issues no mutator call; it does not create a contact.
C23_NoListNoMutator ==
  \A r \in Slots :
    (rq[r].pc \notin {"idle", "lists"} /\ ~MissingParameter(rq[r])
     /\ rq[r].listDetails = <<>>) =>
      MutatorCalls(rq[r]) = <<>>

\* A request with all its parameters whose action is neither 'add' nor 'subscribe',
\* after its lookups have found the list and the template.
OtherAction(q) ==
  /\ q.pc # "idle" /\ ~MissingParameter(q) /\ q.action \notin {ADD, SUBSCRIBE}
  /\ FoundListAndTemplate(q)

\* C24: a request whose action is present and is neither 'add' nor 'subscribe'
\* issues no mutator call and is answered 500 (here for a list that was found,
\* with its template).
C24_OtherActionIs500 ==
  \A r \in Slots :
    OtherAction(rq[r]) =>
      /\ MutatorCalls(rq[r]) = <<>>
      /\ Answered(rq[r]) => rq[r].response.kind = "json" /\ rq[r].response.status = 500


(***************************************************************************)
(* parseUrl                                                                *)
(***************************************************************************)

\* The boolean true as a value of a query parameter.
JsTrue == <<-2>>

\* String.prototype.split(sep) for a separator of one character.
RECURSIVE Split(_, _)
Split(s, sep) ==
  IF \A i \in DOMAIN s : s[i] # sep THEN <<s>>
  ELSE LET i == CHOOSE k \in DOMAIN s : s[k] = sep /\ \A j \in 1..(k - 1) : s[j] # sep
       IN  <<SubSeq(s, 1, i - 1)>> \o Split(SubSeq(s, i + 1, Len(s)), sep)

\* Whether c is a hexadecimal digit.
IsHex(c) == c \in (48..57) \cup (65..70) \cup (97..102)

\* Whether an escape %XX stands at position i of s.
IsEscape(s, i) == i + 2 <= Len(s) /\ s[i] = 37 /\ IsHex(s[i + 1]) /\ IsHex(s[i + 2])

\* Whether the escape of a UTF-8 continuation byte stands at position i of s.
IsContinuation(s, i) == IsEscape(s, i) /\ EscapedByte(s, i) \in 128..191

\* Whether the escape of a byte of lo..hi stands at position i of s.
IsEscapeOf(s, i, lo, hi) == IsEscape(s, i) /\ EscapedByte(s, i) \in lo..hi

\* The bytes that may follow lead byte b in the UTF-8 sequence of a code point: a
\* continuation byte, narrowed after E0 and F0 (no overlong form), after ED (no
\* surrogate) and after F4 (nothing above U+10FFFF).
SecondByteLow(b) == IF b = 224 THEN 160 ELSE IF b = 240 THEN 144 ELSE 128
SecondByteHigh(b) == IF b = 237 THEN 159 ELSE IF b = 244 THEN 143 ELSE 191

\* Whether decodeURIComponent(s) throws a URIError: a '%' that starts no escape,
\* or escapes that are not the UTF-8 sequence of a code point.
RECURSIVE Malformed(_)
Malformed(s) ==
  IF s = <<>> THEN FALSE
  ELSE IF Head(s) # 37 THEN Malformed(Tail(s))
  ELSE IF ~IsEscape(s, 1) THEN TRUE
  ELSE LET b == EscapedByte(s, 1)
       IN  IF b < 128 THEN Malformed(SubSeq(s, 4, Len(s)))
           ELSE IF b \in 194..223
           THEN ~IsContinuation(s, 4) \/ Malformed(SubSeq(s, 7, Len(s)))
           ELSE IF b \in 224..239
           THEN \/ ~IsEscapeOf(s, 4, SecondByteLow(b), SecondByteHigh(b))
                \/ ~IsContinuation(s, 7)
                \/ Malformed(SubSeq(s, 10, Len(s)))
           ELSE IF b \in 240..244
           THEN \/ ~IsEscapeOf(s, 4, SecondByteLow(b), SecondByteHigh(b))
                \/ ~IsContinuation(s, 7)
                \/ ~IsContinuation(s, 10)
                \/ Malformed(SubSeq(s, 13, Len(s)))
           ELSE TRUE

\* urlObj.search.slice(1): what stands between the first '?' and the fragment.
SearchOf(u) ==
  IF \A i \in DOMAIN u : u[i] # 63 THEN <<>>
  ELSE Split(QueryOf(u), 35)[1]

\* params[key] = value (line 580).
SetParam(map, key, value) ==
  [k \in DOMAIN map \cup {key} |-> IF k = key THEN value ELSE map[k]]

\* Lines 576-582: the items of the query string, one after the other; the item is
\* decoded, then split at '='; kv[1] || true is true for a missing or empty kv[1].
\* A decodeURIComponent that throws ends the loop (catch of line 583) and leaves
\* the parameters set so far.
RECURSIVE parseItems(_, _)
parseItems(items, map) ==
  IF items = <<>> \/ Malformed(Head(items)) THEN map
  ELSE LET decodedItem == decodeURIComponent(Head(items))
           kv == Split(decodedItem, 61)
           value == IF Len(kv) >= 2 /\ kv[2] # <<>> THEN kv[2] ELSE JsTrue
       IN  parseItems(Tail(items),
                      IF kv[1] # <<>> THEN SetParam(map, kv[1], value) ELSE map)

\* parseUrl (570-587): the query parameters of a URL.
parseUrl(u) == parseItems(Split(SearchOf(u), 38), <<>>)

\* The URL of the worker, without a query string.
WorkerUrl == <<104, 116, 116, 112, 115, 58, 47, 47, 52, 56, 105, 120, 46, 110, 101, 116, 47>>

\* The query items requests are built from: 'k=v', 'k', 'k=', 'k=a%3Db', 'k=a=b',
\* 'j=%C3%A9', '=v', 'j=%', 'a%40b=1', 'j=%ED%A0%80' (a surrogate, which no UTF-8
\* sequence encodes), 'j=%F0%9F%98%80' (a four-byte sequence) and the empty item.
QueryItems ==
  { <<107, 61, 118>>, <<107>>, <<107, 61>>,
    <<107, 61, 97, 37, 51, 68, 98>>, <<107, 61, 97, 61, 98>>,
    <<106, 61, 37, 67, 51, 37, 65, 57>>, <<61, 118>>, <<106, 61, 37>>,
    <<97, 37, 52, 48, 98, 61, 49>>,
    <<106, 61, 37, 69, 68, 37, 65, 48, 37, 56, 48>>,
    <<106, 61, 37, 70, 48, 37, 57, 70, 37, 57, 56, 37, 56, 48>>, <<>> }

\* The number of items of a query string.
MaxItems == 2

\* The items of a query string joined by '&'.
RECURSIVE JoinItems(_)
JoinItems(items) ==
  IF Len(items) = 1 THEN items[1] ELSE items[1] \o <<38>> \o JoinItems(Tail(items))

\* The URLs parseUrl is applied to.
RequestUrls ==
  {WorkerUrl} \cup
  UNION {{WorkerUrl \o <<63>> \o JoinItems(items) : items \in [1..n -> QueryItems]} : n \in 1..MaxItems}

\* A request URL, before line 596.
InitParse ==
  /\ requestUrl \in RequestUrls
  /\ params = NotParsed
  /\ contacts = {}
  /\ member = [p \in Emails \X ListIds |-> "none"]
  /\ rq = [r \in Slots |-> IdleRequest]
  /\ overlap = FALSE
  /\ headers = 0
  /\ optIn = {}
  /\ fresh = {}
  /\ raced = {}

\* Line 596: parseUrl(request.url).
parseRequestUrl ==
  /\ ~params.parsed
  /\ params' = [parsed |-> TRUE, map |-> parseUrl(requestUrl)]
  /\ UNCHANGED <<contacts, member, rq, overlap, headers, optIn, fresh, raced, requestUrl>>

NextParse == parseRequestUrl

\* parseUrl applied to the URL of a request.
SpecParse == InitParse /\ [][NextParse]_vars

\* The items of the query string of the request, as they were sent.
SentItems == Split(SearchOf(requestUrl), 38)

\* The key of a query item: what stands before its first '=', percent-decoded.
KeyOf(item) == decodeURIComponent(Split(item, 61)[1])

\* The value of a query item 'key=value': what stands after its first '=',
\* percent-decoded; true for an item without '='.
ValueOf(item) ==
  IF \A i \in DOMAIN item : item[i] # 61 THEN JsTrue
  ELSE decodeURIComponent(SubSeq(item, Len(Split(item, 61)[1]) + 2, Len(item)))

\* C25: parseUrl maps every query item 'key=value' to key -> the percent-decoded
\* value, the empty value and the values that hold a '=' once decoded included,
\* and a key without '=value' to true (of items with the same key the last counts).
C25_ParseUrlDecodesItems ==
  (params.parsed /\ \A i \in DOMAIN SentItems : ~Malformed(SentItems[i])) =>
    \A i \in DOMAIN SentItems :
      LET item == SentItems[i]
      IN  (KeyOf(item) # <<>>
           /\ \A j \in (i + 1)..Len(SentItems) : KeyOf(SentItems[j]) # KeyOf(item)) =>
            /\ KeyOf(item) \in DOMAIN params.map
            /\ params.map[KeyOf(item)] = ValueOf(item)

=============================================================================
